---- MODULE Spec2Model ----
(***************************************************************************)
(* A model of app/root.tsx: the URL canonicaliser (cleanParams,            *)
(* cleanLocaleFromPathname, createHreflangs, createCanonicalUrl, rootSeo), *)
(* the revalidation policy (shouldRevalidate) and the root loader with its *)
(* critical and deferred fetches.                                          *)
(*                                                                         *)
(* Strings that the code inspects character by character (pathnames,       *)
(* query strings, hosts, the URLs built from them) are sequences of        *)
(* one-character strings.  A URL object is a record of its host, pathname, *)
(* search (without the leading ?) and hash; the scheme is always https.    *)
(***************************************************************************)
EXTENDS Naturals, Sequences, FiniteSets

VARIABLES
  url,          \* the request URL (request.url, parsed); the current location
  ret,          \* the last call of a canonicaliser function and what it returned
  pc,           \* where the loader invocation is
  header,       \* the promise of storefront.query(HEADER_QUERY)
  footerQuery,  \* the promise of storefront.query(FOOTER_QUERY)
  footer,       \* the promise footerQuery.catch(...) that the bundle carries
  cart,         \* the promise of cart.get()
  isLoggedIn,   \* the promise of customerAccount.isLoggedIn()
  log,          \* what console.error has logged in this invocation
  bundle,       \* what the loader returned through defer(), or NoBundle
  nav,          \* the last navigation shouldRevalidate decided on
  navs          \* the number of navigations so far

vars == <<url, ret, pc, header, footerQuery, footer, cart, isLoggedIn, log,
          bundle, nav, navs>>

loaderVars == <<pc, header, footerQuery, footer, cart, isLoggedIn, log, bundle>>

(***************************************************************************)
(* Bounds of the model.                                                    *)
(***************************************************************************)
MaxSegments == 2
MaxParams == 2
MaxNavigations == 2

(***************************************************************************)
(* Characters.                                                             *)
(***************************************************************************)
LowerSeq == <<"a", "b", "c", "d", "e", "f", "g", "h", "i", "j", "k", "l", "m",
             "n", "o", "p", "q", "r", "s", "t", "u", "v", "w", "x", "y", "z">>

UpperSeq == <<"A", "B", "C", "D", "E", "F", "G", "H", "I", "J", "K", "L", "M",
             "N", "O", "P", "Q", "R", "S", "T", "U", "V", "W", "X", "Y", "Z">>

Lower == {LowerSeq[i] : i \in 1..26}

Upper == {UpperSeq[i] : i \in 1..26}

Digit == {"0", "1", "2", "3", "4", "5", "6", "7", "8", "9"}

\* [a-z] under the i flag
IsLetter(c) == c \in Lower \cup Upper

RECURSIVE Concat(_)
\* the concatenation of a sequence of strings
Concat(ss) == IF ss = <<>> THEN <<>> ELSE Head(ss) \o Concat(Tail(ss))

(***************************************************************************)
(* String.prototype.indexOf and String.prototype.replace with a string     *)
(* pattern: the first occurrence only.                                     *)
(***************************************************************************)
IndexOf(s, pat) ==
  LET at == {i \in 1..(Len(s) + 1) :
               /\ i + Len(pat) - 1 <= Len(s)
               /\ SubSeq(s, i, i + Len(pat) - 1) = pat}
  IN IF at = {} THEN 0 ELSE CHOOSE i \in at : \A j \in at : i <= j

StringReplace(s, pat, rep) ==
  LET i == IndexOf(s, pat)
  IN IF i = 0 THEN s
     ELSE SubSeq(s, 1, i - 1) \o rep \o SubSeq(s, i + Len(pat), Len(s))

(***************************************************************************)
(* url.searchParams: the application/x-www-form-urlencoded parser applied  *)
(* to url.search, and URLSearchParams.prototype.toString, its serialiser.  *)
(***************************************************************************)
RECURSIVE Split(_, _)
\* the pieces of s between the occurrences of the character sep
Split(s, sep) ==
  LET i == IndexOf(s, <<sep>>)
  IN IF i = 0 THEN <<s>>
     ELSE <<SubSeq(s, 1, i - 1)>> \o Split(SubSeq(s, i + 1, Len(s)), sep)

HexDigit == Digit \cup {"A", "B", "C", "D", "E", "F", "a", "b", "c", "d", "e", "f"}

\* the character of a percent-encoded byte, for the bytes the inputs use
ByteChar(h, l) ==
  CASE <<h, l>> = <<"2", "0">> -> " "
    [] <<h, l>> = <<"2", "5">> -> "%"
    [] <<h, l>> = <<"2", "6">> -> "&"
    [] <<h, l>> = <<"2", "B">> -> "+"
    [] <<h, l>> = <<"3", "D">> -> "="
    [] <<h, l>> = <<"6", "F">> -> "o"
    [] OTHER -> "?"

RECURSIVE PercentDecode(_)
PercentDecode(s) ==
  IF s = <<>> THEN <<>>
  ELSE IF Len(s) >= 3 /\ s[1] = "%" /\ s[2] \in HexDigit /\ s[3] \in HexDigit
       THEN <<ByteChar(s[2], s[3])>> \o PercentDecode(SubSeq(s, 4, Len(s)))
       ELSE <<Head(s)>> \o PercentDecode(Tail(s))

\* a name or a value: + becomes a space, then the percent-decoding
FormDecode(s) ==
  PercentDecode([i \in 1..Len(s) |-> IF s[i] = "+" THEN " " ELSE s[i]])

\* one piece between two &: the name before the first =, the value after it
ParsePair(piece) ==
  LET i == IndexOf(piece, <<"=">>)
  IN IF i = 0 THEN <<FormDecode(piece), <<>>>>
     ELSE <<FormDecode(SubSeq(piece, 1, i - 1)),
            FormDecode(SubSeq(piece, i + 1, Len(piece)))>>

NonEmpty(piece) == piece # <<>>

RECURSIVE MapParsePair(_)
MapParsePair(pieces) ==
  IF pieces = <<>> THEN <<>>
  ELSE <<ParsePair(Head(pieces))>> \o MapParsePair(Tail(pieces))

\* Array.from(url.searchParams): the [key, value] pairs of a query string
ParseQuery(search) == MapParsePair(SelectSeq(Split(search, "&"), NonEmpty))

\* the urlencoded serialiser of one character
EncodeChar(c) ==
  IF c \in Lower \cup Upper \cup Digit \cup {"*", "-", ".", "_"} THEN <<c>>
  ELSE CASE c = " " -> <<"+">>
         [] c = "%" -> <<"%", "2", "5">>
         [] c = "&" -> <<"%", "2", "6">>
         [] c = "+" -> <<"%", "2", "B">>
         [] c = "=" -> <<"%", "3", "D">>
         [] c = "/" -> <<"%", "2", "F">>
         [] c = "?" -> <<"%", "3", "F">>
         [] OTHER -> <<"%", "X", "X">>

FormEncode(s) == Concat([i \in 1..Len(s) |-> EncodeChar(s[i])])

RECURSIVE SerializeQuery(_)
\* new URLSearchParams(params).toString()
SerializeQuery(params) ==
  IF params = <<>> THEN <<>>
  ELSE FormEncode(Head(params)[1]) \o <<"=">> \o FormEncode(Head(params)[2])
       \o (IF Tail(params) = <<>> THEN <<>>
           ELSE <<"&">> \o SerializeQuery(Tail(params)))

(***************************************************************************)
(* The URL canonicaliser.                                                  *)
(***************************************************************************)
whitelistedParams == <<<<"c", "o", "l", "o", "r">>>>

ToLower(c) ==
  IF c \in Upper
  THEN CHOOSE l \in Lower : \E i \in 1..26 : LowerSeq[i] = l /\ UpperSeq[i] = c
  ELSE c

\* the key is compared without regard to case
IsWhitelistedAnyCase(param) ==
  \E i \in 1..Len(whitelistedParams) :
    whitelistedParams[i] = [k \in 1..Len(param[1]) |-> ToLower(param[1][k])]

\* whitelistedParams.includes(key)
IsWhitelisted(param) ==
  \E i \in 1..Len(whitelistedParams) : whitelistedParams[i] = param[1]

cleanParams(u) ==
  LET params == SelectSeq(ParseQuery(u.search), IsWhitelisted)
  IN SerializeQuery(params)

NoMatch == <<>>

\* the expression without its i flag
LocaleExecCaseSensitive(pathname) ==
  IF /\ Len(pathname) >= 6
     /\ pathname[1] = "/"
     /\ pathname[2] \in Lower /\ pathname[3] \in Lower
     /\ pathname[4] = "-"
     /\ pathname[5] \in Lower /\ pathname[6] \in Lower
  THEN IF Len(pathname) >= 7 /\ pathname[7] = "/" THEN SubSeq(pathname, 1, 7)
       ELSE IF Len(pathname) = 6 THEN pathname
       ELSE NoMatch
  ELSE NoMatch

\* /^\/([a-z]{2})-([a-z]{2})(\/|$)/i.exec(pathname): match[0], or NoMatch
LocaleExec(pathname) ==
  IF /\ Len(pathname) >= 6
     /\ pathname[1] = "/"
     /\ IsLetter(pathname[2]) /\ IsLetter(pathname[3])
     /\ pathname[4] = "-"
     /\ IsLetter(pathname[5]) /\ IsLetter(pathname[6])
  THEN IF Len(pathname) >= 7 /\ pathname[7] = "/" THEN SubSeq(pathname, 1, 7)
       ELSE IF Len(pathname) = 6 THEN pathname
       ELSE NoMatch
  ELSE NoMatch

cleanLocaleFromPathname(u) ==
  LET localeMatch == LocaleExec(u.pathname)
  IN IF localeMatch # NoMatch
     THEN StringReplace(u.pathname, localeMatch, <<"/">>)
     ELSE u.pathname

\* url.origin
Origin(u) == <<"h", "t", "t", "p", "s", ":", "/", "/">> \o u.host

\* the pathname is used as it came, with its locale prefix
createHreflangsKeepLocale(u) ==
  LET paramString == cleanParams(u)
  IN << [language |-> "en-us",
         url |-> Origin(u) \o u.pathname
                 \o (IF paramString # <<>> THEN <<"?">> \o paramString ELSE <<>>),
         default |-> TRUE] >>

createHreflangs(u) ==
  LET paramString == cleanParams(u)
      pathname == cleanLocaleFromPathname(u)
  IN << [language |-> "en-us",
         url |-> Origin(u) \o pathname
                 \o (IF paramString # <<>> THEN <<"?">> \o paramString ELSE <<>>),
         default |-> TRUE] >>

\* the ? is appended whether or not a parameter survived
createCanonicalUrlAlwaysQuery(u) ==
  LET paramString == cleanParams(u)
      pathname == cleanLocaleFromPathname(u)
  IN Origin(u) \o pathname \o <<"?">> \o paramString

createCanonicalUrl(u) ==
  LET paramString == cleanParams(u)
      pathname == cleanLocaleFromPathname(u)
  IN IF paramString # <<>>
     THEN Origin(u) \o pathname \o <<"?">> \o paramString
     ELSE Origin(u) \o pathname

DevHost == <<"d", "e", "v", ".", "h", "o", "n", "e", "y", "l", "o", "v", "e",
             ".", "c", "o", "m">>

StagingHost == <<"s", "t", "a", "g", "i", "n", "g", ".", "h", "o", "n", "e",
                 "y", "l", "o", "v", "e", ".", "c", "o", "m">>

\* a listed host is looked for at the start of the host, not compared with it
NoIndexByPrefix(u) ==
  \/ Len(u.host) >= Len(DevHost) /\ SubSeq(u.host, 1, Len(DevHost)) = DevHost
  \/ Len(u.host) >= Len(StagingHost)
       /\ SubSeq(u.host, 1, Len(StagingHost)) = StagingHost

NoIndex(u) == u.host = DevHost \/ u.host = StagingHost

\* the descriptor; of its constant fields (description, media, sameAs, ...)
\* only a few are kept, the title in ASCII
rootSeo(u) ==
  LET noIndex == NoIndex(u)
      canonicalUrl == createCanonicalUrl(u)
      hreflangs == createHreflangs(u)
  IN [title |-> "Honeylove(R) - Where function meets fashion",
      titleTemplate |-> "%s",
      handle |-> "@gethoneylove",
      url |-> canonicalUrl,
      robots |-> [noFollow |-> noIndex],
      alternates |-> hreflangs,
      jsonLd |-> [type |-> "Organization",
                  id |-> "https://www.honeylove.com/",
                  name |-> "Honeylove",
                  url |-> canonicalUrl]]

(***************************************************************************)
(* The request URLs the canonicaliser is applied to: a host, a pathname of *)
(* one to MaxSegments segments and a query of up to MaxParams parameters.  *)
(***************************************************************************)
WwwHost == <<"w", "w", "w", ".", "h", "o", "n", "e", "y", "l", "o", "v", "e",
             ".", "c", "o", "m">>

Hosts ==
  { WwwHost, DevHost, StagingHost,
    <<"a", ".">> \o DevHost,              \* a subdomain of a listed host
    DevHost \o <<".", "i", "o">>,         \* a listed host as a prefix
    StagingHost \o <<":", "8", "1">> }    \* a listed host on another port

Segments ==
  { <<>>,                                 \* "/" alone, a trailing or a double slash
    <<"e", "n", "-", "U", "S">>,
    <<"e", "n", "g", "-", "u", "s">>,
    <<"s", "h", "o", "p">> }

RawParams ==
  { <<"c", "o", "l", "o", "r", "=", "r", "e", "d">>,
    <<"r", "e", "f", "=", "a", "b", "c">>,
    <<"c", "o", "l", "%", "6", "F", "r", "=", "a", "+", "%", "2", "6">>,
    <<"C", "o", "l", "o", "r", "=", "x">> }

SeqsUpTo(S, lo, hi) == UNION {[1..k -> S] : k \in lo..hi}

PathOf(segs) == Concat([i \in 1..Len(segs) |-> <<"/">> \o segs[i]])

QueryOf(ps) ==
  Concat([i \in 1..Len(ps) |-> IF i = 1 THEN ps[i] ELSE <<"&">> \o ps[i]])

Pathnames == {PathOf(segs) : segs \in SeqsUpTo(Segments, 1, MaxSegments)}

Searches == {QueryOf(ps) : ps \in SeqsUpTo(RawParams, 0, MaxParams)}

\* every pathname with every query on the production host, and every host
\* with the one-segment pathnames and the queries of at most one parameter
RequestUrls ==
  [host : {WwwHost}, pathname : Pathnames, search : Searches, hash : {<<>>}]
  \cup [host : Hosts,
        pathname : {PathOf(<<seg>>) : seg \in Segments},
        search : {QueryOf(ps) : ps \in SeqsUpTo(RawParams, 0, 1)},
        hash : {<<>>}]

NoCall == [fn |-> "none"]

NoBundle == [kind |-> "none"]

NoNav == [kind |-> "none"]

\* the canonicaliser applied to one request URL: no loader runs
Init ==
  /\ url \in RequestUrls
  /\ ret = NoCall
  /\ pc = "idle"
  /\ header = "none"
  /\ footerQuery = "none"
  /\ footer = "none"
  /\ cart = "none"
  /\ isLoggedIn = "none"
  /\ log = <<>>
  /\ bundle = NoBundle
  /\ nav = NoNav
  /\ navs = 0

CallCleanParams ==
  /\ ret' = [fn |-> "cleanParams", val |-> cleanParams(url)]
  /\ UNCHANGED <<url, loaderVars, nav, navs>>

CallCleanLocaleFromPathname ==
  /\ ret' = [fn |-> "cleanLocaleFromPathname", val |-> cleanLocaleFromPathname(url)]
  /\ UNCHANGED <<url, loaderVars, nav, navs>>

CallCreateHreflangs ==
  /\ ret' = [fn |-> "createHreflangs", val |-> createHreflangs(url)]
  /\ UNCHANGED <<url, loaderVars, nav, navs>>

CallCreateCanonicalUrl ==
  /\ ret' = [fn |-> "createCanonicalUrl", val |-> createCanonicalUrl(url)]
  /\ UNCHANGED <<url, loaderVars, nav, navs>>

CallRootSeo ==
  /\ ret' = [fn |-> "rootSeo", val |-> rootSeo(url)]
  /\ UNCHANGED <<url, loaderVars, nav, navs>>

Next ==
  \/ CallCleanParams
  \/ CallCleanLocaleFromPathname
  \/ CallCreateHreflangs
  \/ CallCreateCanonicalUrl
  \/ CallRootSeo

Spec == Init /\ [][Next]_vars

(***************************************************************************)
(* shouldRevalidate.  A form method is one of the upper-case HTTP methods  *)
(* or undefined; URL.prototype.toString is the URL's href.                 *)
(***************************************************************************)
Undefined == "undefined"

FormMethods == {Undefined, "GET", "POST", "PUT", "PATCH", "DELETE"}

\* url.toString()
Href(u) ==
  Origin(u) \o u.pathname
  \o (IF u.search # <<>> THEN <<"?">> \o u.search ELSE <<>>)
  \o (IF u.hash # <<>> THEN <<"#">> \o u.hash ELSE <<>>)

\* the two URLs are compared by their pathnames alone
shouldRevalidateByPathname(formMethod, currentUrl, nextUrl) ==
  IF formMethod # Undefined /\ formMethod # "GET" THEN TRUE
  ELSE IF currentUrl.pathname = nextUrl.pathname THEN TRUE
  ELSE FALSE

shouldRevalidate(formMethod, currentUrl, nextUrl) ==
  IF formMethod # Undefined /\ formMethod # "GET" THEN TRUE
  ELSE IF Href(currentUrl) = Href(nextUrl) THEN TRUE
  ELSE FALSE

(***************************************************************************)
(* The loader.  A promise is "none" (not created), "pending", "fulfilled"  *)
(* or "rejected"; the footer promise of the bundle is the .catch promise,  *)
(* fulfilled with the data ("data") or with null ("null").                 *)
(***************************************************************************)
NavUrls ==
  [host : {WwwHost},
   pathname : {PathOf(<<<<>>>>), PathOf(<<<<"e", "n", "-", "u", "s">>, <<"s", "h", "o", "p">>>>)},
   search : {<<>>, <<"c", "o", "l", "o", "r", "=", "r", "e", "d">>},
   hash : {<<>>}]

\* a loader invocation about to start for a request
LoaderInit ==
  /\ url \in NavUrls
  /\ ret = NoCall
  /\ pc = "start"
  /\ header = "none"
  /\ footerQuery = "none"
  /\ footer = "none"
  /\ cart = "none"
  /\ isLoggedIn = "none"
  /\ log = <<>>
  /\ bundle = NoBundle
  /\ nav = NoNav
  /\ navs = 0

\* loader, line 152: loadDeferredData(args) starts the three deferred fetches
\* and returns {cart, isLoggedIn, footer} without awaiting any of them
LoadDeferredData ==
  /\ pc = "start"
  /\ footerQuery' = "pending"
  /\ footer' = "pending"
  /\ cart' = "pending"
  /\ isLoggedIn' = "pending"
  /\ pc' = "critical"
  /\ UNCHANGED <<url, ret, header, log, bundle, nav, navs>>

\* loader, line 155: loadCriticalData(args) starts the header fetch and the
\* loader awaits it
LoadCriticalData ==
  /\ pc = "critical"
  /\ header' = "pending"
  /\ pc' = "await"
  /\ UNCHANGED <<url, ret, footerQuery, footer, cart, isLoggedIn, log, bundle, nav, navs>>

\* the loader awaits the footer as well as the header
LoaderResumeAwaitsFooter ==
  /\ pc = "await"
  /\ header = "fulfilled"
  /\ footer \in {"data", "null"}
  /\ pc' = "resumed"
  /\ UNCHANGED <<url, ret, header, footerQuery, footer, cart, isLoggedIn, log, bundle, nav, navs>>

\* the header fetch resolved: loadCriticalData returns {header} and the await
\* of the loader returns
LoaderResume ==
  /\ pc = "await"
  /\ header = "fulfilled"
  /\ pc' = "resumed"
  /\ UNCHANGED <<url, ret, header, footerQuery, footer, cart, isLoggedIn, log, bundle, nav, navs>>

\* the loader builds the seo object and returns
\* defer({...deferredData, ...criticalData, seo, ...})
LoaderReturn ==
  /\ pc = "resumed"
  /\ bundle' = [kind |-> "deferred",
                cart |-> "cart",
                isLoggedIn |-> "isLoggedIn",
                footer |-> "footer",
                header |-> "header data",
                seo |-> rootSeo(url)]
  /\ pc' = "returned"
  /\ UNCHANGED <<url, ret, header, footerQuery, footer, cart, isLoggedIn, log, nav, navs>>

\* a rejected cart fails the loader as a rejected header does
LoaderThrowOnCart ==
  /\ pc = "await"
  /\ header = "rejected" \/ cart = "rejected"
  /\ pc' = "rejected"
  /\ UNCHANGED <<url, ret, header, footerQuery, footer, cart, isLoggedIn, log, bundle, nav, navs>>

\* the header fetch rejected: Promise.all rejects, loadCriticalData rejects,
\* and the await in the loader throws
LoaderThrow ==
  /\ pc = "await"
  /\ header = "rejected"
  /\ pc' = "rejected"
  /\ UNCHANGED <<url, ret, header, footerQuery, footer, cart, isLoggedIn, log, bundle, nav, navs>>

HeaderResolve ==
  /\ header = "pending"
  /\ header' = "fulfilled"
  /\ UNCHANGED <<url, ret, pc, footerQuery, footer, cart, isLoggedIn, log, bundle, nav, navs>>

HeaderReject ==
  /\ header = "pending"
  /\ header' = "rejected"
  /\ UNCHANGED <<url, ret, pc, footerQuery, footer, cart, isLoggedIn, log, bundle, nav, navs>>

FooterQueryResolve ==
  /\ footerQuery = "pending"
  /\ footerQuery' = "fulfilled"
  /\ UNCHANGED <<url, ret, pc, header, footer, cart, isLoggedIn, log, bundle, nav, navs>>

FooterQueryReject ==
  /\ footerQuery = "pending"
  /\ footerQuery' = "rejected"
  /\ UNCHANGED <<url, ret, pc, header, footer, cart, isLoggedIn, log, bundle, nav, navs>>

\* .catch passes a fulfilled query through
FooterPass ==
  /\ footerQuery = "fulfilled"
  /\ footer = "pending"
  /\ footer' = "data"
  /\ UNCHANGED <<url, ret, pc, header, footerQuery, cart, isLoggedIn, log, bundle, nav, navs>>

\* the handler logs the error and throws it again
FooterCatchRethrow ==
  /\ footerQuery = "rejected"
  /\ footer = "pending"
  /\ log' = Append(log, "footer query error")
  /\ footer' = "rejected"
  /\ UNCHANGED <<url, ret, pc, header, footerQuery, cart, isLoggedIn, bundle, nav, navs>>

\* the .catch handler: console.error(error); return null
FooterCatch ==
  /\ footerQuery = "rejected"
  /\ footer = "pending"
  /\ log' = Append(log, "footer query error")
  /\ footer' = "null"
  /\ UNCHANGED <<url, ret, pc, header, footerQuery, cart, isLoggedIn, bundle, nav, navs>>

CartResolve ==
  /\ cart = "pending"
  /\ cart' = "fulfilled"
  /\ UNCHANGED <<url, ret, pc, header, footerQuery, footer, isLoggedIn, log, bundle, nav, navs>>

CartReject ==
  /\ cart = "pending"
  /\ cart' = "rejected"
  /\ UNCHANGED <<url, ret, pc, header, footerQuery, footer, isLoggedIn, log, bundle, nav, navs>>

IsLoggedInResolve ==
  /\ isLoggedIn = "pending"
  /\ isLoggedIn' = "fulfilled"
  /\ UNCHANGED <<url, ret, pc, header, footerQuery, footer, cart, log, bundle, nav, navs>>

IsLoggedInReject ==
  /\ isLoggedIn = "pending"
  /\ isLoggedIn' = "rejected"
  /\ UNCHANGED <<url, ret, pc, header, footerQuery, footer, cart, log, bundle, nav, navs>>

\* a navigation of the rendered page: the router asks shouldRevalidate and
\* runs the loader again for the next URL when it answers true
Navigate(formMethod, nextUrl) ==
  /\ pc = "returned"
  /\ navs < MaxNavigations
  /\ LET revalidate == shouldRevalidate(formMethod, url, nextUrl)
     IN /\ nav' = [kind |-> "navigation",
                   formMethod |-> formMethod,
                   currentUrl |-> url,
                   nextUrl |-> nextUrl,
                   revalidate |-> revalidate,
                   reused |-> bundle]
        /\ IF revalidate
           THEN /\ pc' = "start"
                /\ header' = "none"
                /\ footerQuery' = "none"
                /\ footer' = "none"
                /\ cart' = "none"
                /\ isLoggedIn' = "none"
                /\ log' = <<>>
                /\ bundle' = NoBundle
           ELSE UNCHANGED loaderVars
  /\ url' = nextUrl
  /\ navs' = navs + 1
  /\ ret' = ret

LoaderNext ==
  \/ LoadDeferredData
  \/ LoadCriticalData
  \/ LoaderResume
  \/ LoaderReturn
  \/ LoaderThrow
  \/ HeaderResolve
  \/ HeaderReject
  \/ FooterQueryResolve
  \/ FooterQueryReject
  \/ FooterPass
  \/ FooterCatch
  \/ CartResolve
  \/ CartReject
  \/ IsLoggedInResolve
  \/ IsLoggedInReject
  \/ \E formMethod \in FormMethods, nextUrl \in NavUrls : Navigate(formMethod, nextUrl)

LoaderSpec == LoaderInit /\ [][LoaderNext]_vars

(***************************************************************************)
(* What the claims are stated with.                                        *)
(***************************************************************************)
Color == <<"c", "o", "l", "o", "r">>

KeyIsColor(pair) == pair[1] = Color

Chars(s) == {s[i] : i \in 1..Len(s)}

\* the first segment of a pathname: what stands between its leading slash and
\* the next slash, or its end
FirstSegment(p) ==
  LET slashes == {k \in 2..Len(p) : p[k] = "/"}
      stop == IF slashes = {} THEN Len(p) + 1
              ELSE CHOOSE k \in slashes : \A j \in slashes : k <= j
  IN SubSeq(p, 2, stop - 1)

\* two letters, a dash, two letters
IsLocaleSegment(seg) ==
  /\ Len(seg) = 5
  /\ seg[3] = "-"
  /\ \A i \in {1, 2, 4, 5} : seg[i] \in Lower \cup Upper

\* a URL built for the request: what follows the origin has no locale segment
\* in front and no query parameter but color
IsCleanUrl(s) ==
  LET rest == SubSeq(s, Len(Origin(url)) + 1, Len(s))
      marks == {k \in 1..Len(rest) : rest[k] = "?"}
      q == IF marks = {} THEN Len(rest) + 1
           ELSE CHOOSE k \in marks : \A j \in marks : k <= j
      path == SubSeq(rest, 1, q - 1)
      query == SubSeq(rest, q + 1, Len(rest))
  IN /\ ~IsLocaleSegment(FirstSegment(path))
     /\ \A i \in 1..Len(ParseQuery(query)) : KeyIsColor(ParseQuery(query)[i])

\* C1: the canonical URL and every hreflang URL carry no query parameter
\* whose key is not color, and their path does not begin with a locale
\* segment.
C1_CanonicalAndHreflangsClean ==
  /\ ret.fn = "createCanonicalUrl" => IsCleanUrl(ret.val)
  /\ ret.fn = "createHreflangs" =>
       \A i \in 1..Len(ret.val) : IsCleanUrl(ret.val[i].url)

\* C4: a pathname /xx-yy/rest becomes /rest, and / when rest is empty; a
\* pathname whose first segment is not two letters, a dash and two letters
\* comes back unchanged.
C4_LocaleStripped ==
  ret.fn = "cleanLocaleFromPathname" =>
    IF IsLocaleSegment(FirstSegment(url.pathname))
    THEN ret.val = <<"/">> \o SubSeq(url.pathname, 8, Len(url.pathname))
    ELSE ret.val = url.pathname

C4_Witness ==
  /\ ret.fn = "cleanLocaleFromPathname"
  /\ IsLocaleSegment(FirstSegment(url.pathname))
  /\ Chars(FirstSegment(url.pathname)) \cap Upper # {}
  /\ Len(url.pathname) > 7
  /\ Len(ret.val) = Len(url.pathname) - 6

\* C5: the result of cleanParams holds exactly the color pairs of the query,
\* in their order, and is the empty string when the query has none.
C5_OnlyColorSurvives ==
  ret.fn = "cleanParams" =>
    LET colors == SelectSeq(ParseQuery(url.search), KeyIsColor)
    IN /\ ParseQuery(ret.val) = colors
       /\ colors = <<>> => ret.val = <<>>

C5_Witness ==
  /\ ret.fn = "cleanParams"
  /\ Len(ParseQuery(url.search)) = 2
  /\ Len(ParseQuery(ret.val)) = 1
  /\ " " \in Chars(ParseQuery(ret.val)[1][2])

ListedHosts ==
  { <<"d", "e", "v", ".", "h", "o", "n", "e", "y", "l", "o", "v", "e", ".",
      "c", "o", "m">>,
    <<"s", "t", "a", "g", "i", "n", "g", ".", "h", "o", "n", "e", "y", "l",
      "o", "v", "e", ".", "c", "o", "m">> }

\* C6: robots.noFollow is true exactly when the host of the request URL is
\* dev.honeylove.com or staging.honeylove.com.
C6_NoFollowIffListedHost ==
  ret.fn = "rootSeo" => (ret.val.robots.noFollow <=> url.host \in ListedHosts)

C6_Witness ==
  /\ ret.fn = "rootSeo"
  /\ url.host \notin ListedHosts
  /\ \E h \in ListedHosts :
       Len(url.host) > Len(h) /\ SubSeq(url.host, 1, Len(h)) = h
  /\ ~ret.val.robots.noFollow

\* C7: the canonical URL is the origin and the locale-stripped pathname,
\* followed by ? and the filtered query exactly when that query is not
\* empty; it has no ? when no whitelisted parameter survives.
C7_QueryMarkIffParams ==
  ret.fn = "createCanonicalUrl" =>
    LET base == Origin(url) \o cleanLocaleFromPathname(url)
        filtered == cleanParams(url)
        survives == \E i \in 1..Len(ParseQuery(url.search)) :
                      KeyIsColor(ParseQuery(url.search)[i])
    IN /\ survives => ret.val = base \o <<"?">> \o filtered /\ filtered # <<>>
       /\ ~survives => ret.val = base /\ "?" \notin Chars(ret.val)

C7_Witness ==
  /\ ret.fn = "createCanonicalUrl"
  /\ url.search # <<>>
  /\ "?" \notin Chars(ret.val)

\* C8: createHreflangs returns one entry, en-us and default, whose url is the
\* canonical URL of the same request; the descriptor's url, its jsonLd url
\* and its alternate url coincide.
C8_HreflangIsCanonical ==
  /\ ret.fn = "createHreflangs" =>
       /\ Len(ret.val) = 1
       /\ ret.val[1].language = "en-us"
       /\ ret.val[1].default = TRUE
       /\ ret.val[1].url = createCanonicalUrl(url)
  /\ ret.fn = "rootSeo" =>
       /\ Len(ret.val.alternates) = 1
       /\ ret.val.alternates[1].language = "en-us"
       /\ ret.val.alternates[1].default = TRUE
       /\ ret.val.alternates[1].url = ret.val.url
       /\ ret.val.jsonLd.url = ret.val.url

C8_Witness ==
  /\ ret.fn = "rootSeo"
  /\ IsLocaleSegment(FirstSegment(url.pathname))
  /\ "?" \in Chars(ret.val.url)
  /\ ret.val.alternates[1].url = ret.val.url

Deferred == <<footerQuery, cart, isLoggedIn>>

\* C2: a rejected header fetch rejects the loader and no bundle is returned;
\* a rejected footer fetch, the header resolved, leaves the loader to return
\* its bundle, and the bundle's footer resolves to null with the error logged.
C2_HeaderFatalFooterAbsorbed ==
  /\ header = "rejected" => bundle = NoBundle /\ pc \in {"await", "rejected"}
  /\ pc = "await" /\ header = "rejected" =>
       ENABLED LoaderThrow /\ ~ENABLED LoaderResume
  /\ footerQuery = "rejected" /\ header = "fulfilled" =>
       /\ pc \in {"await", "resumed", "returned"}
       /\ pc = "await" => ENABLED LoaderResume
       /\ pc = "returned" => bundle.kind = "deferred" /\ bundle.footer = "footer"
  /\ footerQuery = "rejected" =>
       /\ footer \in {"pending", "null"}
       /\ footer = "pending" => ENABLED FooterCatch /\ log = <<>>
       /\ footer = "null" => log = <<"footer query error">>
  /\ footer = "null" => footerQuery = "rejected"

C2_Witness ==
  /\ pc = "returned"
  /\ bundle.kind = "deferred"
  /\ header = "fulfilled"
  /\ footerQuery = "rejected"
  /\ footer = "null"
  /\ log = <<"footer query error">>

\* C3: shouldRevalidate answers true for a form method other than GET and
\* for a next URL identical to the current one, and false otherwise, when
\* the previous loader result stays in use.
C3_RevalidateDecision ==
  nav.kind = "navigation" =>
    /\ nav.revalidate <=>
         \/ nav.formMethod \notin {Undefined, "GET"}
         \/ nav.currentUrl = nav.nextUrl
    /\ ~nav.revalidate => pc = "returned" /\ bundle.kind = "deferred"

C3_Witness ==
  /\ nav.kind = "navigation"
  /\ nav.formMethod = "GET"
  /\ nav.currentUrl.pathname = nav.nextUrl.pathname
  /\ nav.currentUrl # nav.nextUrl
  /\ ~nav.revalidate
  /\ pc = "returned"

\* C9: the deferred fetches are started before the header fetch is awaited
\* and the loader never waits for them: it returns its bundle only once the
\* header has resolved, and it can do so as soon as the header has resolved,
\* whatever the state of the deferred fetches.
C9_DeferredNeverAwaited ==
  /\ header # "none" \/ pc \in {"await", "resumed", "returned", "rejected"} =>
       \A i \in 1..3 : Deferred[i] # "none"
  /\ bundle # NoBundle \/ pc = "resumed" => header = "fulfilled"
  /\ pc = "await" /\ header = "fulfilled" => ENABLED LoaderResume
  /\ pc = "await" /\ header = "pending" =>
       ~ENABLED LoaderResume /\ ~ENABLED LoaderThrow

C9_Witness ==
  /\ pc = "returned"
  /\ bundle.kind = "deferred"
  /\ footerQuery = "pending"
  /\ footer = "pending"
  /\ cart = "pending"
  /\ isLoggedIn = "pending"

\* C10: a deferred value that fails, the header resolved, does not fail the
\* loader: it still returns its bundle, and loadDeferredData throws nothing.
C10_DeferredFailureTolerated ==
  /\ (\E i \in 1..3 : Deferred[i] = "rejected") /\ header = "fulfilled" =>
       /\ pc \in {"await", "resumed", "returned"}
       /\ pc = "await" => ENABLED LoaderResume /\ ~ENABLED LoaderThrow
       /\ pc = "returned" => bundle.kind = "deferred"
  /\ pc = "rejected" => header = "rejected"
  /\ pc = "start" => ENABLED LoadDeferredData

C10_Witness ==
  /\ pc = "returned"
  /\ bundle.kind = "deferred"
  /\ cart = "rejected"
  /\ isLoggedIn = "rejected"
  /\ footerQuery = "rejected"

====
